---- MODULE Spec2Model ----
(***************************************************************************)
(* Model of the namespace admission webhook of namespace-webhook/main.go   *)
(* (the revision that registers ServerNamespaceBackup on /validate).       *)
(*                                                                         *)
(* One admission call is a handler h walking through ServerNamespaceBackup:*)
(* the local part (parseRequest, the Unmarshal of object/oldObject, the    *)
(* construction of the dynamic client and the label switch) is one step,   *)
(* and every call on the dynamic client (Get, Create, Delete) is a step of *)
(* its own, because the store of Velero resources is shared with every     *)
(* other call.  The environment is the API server: it keeps the namespaces *)
(* of the cluster and sends CREATE/UPDATE/DELETE reviews that agree with   *)
(* them, re-sends a review, or sends a request the handler must reject.    *)
(***************************************************************************)
EXTENDS Integers, Sequences, FiniteSets, TLC

\* ------------------------------------------------------------------ bounds
MaxCalls == 2        \* admission calls delivered in one behaviour
MaxClock == 1        \* wall-clock seconds that pass in one behaviour
MaxFaults == 1       \* failures injected into the cluster config / the backend
NumHandlers == 2     \* handler goroutines (one per inbound HTTP request)

Handlers == 1..NumHandlers

\* --------------------------------------------------------------- constants
TargetKey == "namespace.oam.dev/target"
RuntimeKey == "usage.oam.dev/runtime"
RuntimeTarget == "target"
projectName == "test-project"
JSONType == "application/json"
StatusOK == 200
StatusBadRequest == 400
StatusInternalServerError == 500

\* ------------------------------------------------------------ input domains
NsNames == {"a", "a-a"}

\* A label map is a set of <<key, value>> pairs with unique keys.  The maps
\* tried: each way of missing the trigger condition, and two ways of meeting it.
LabelMaps ==
  { {},
    {<<TargetKey, "t">>},
    {<<RuntimeKey, RuntimeTarget>>},
    {<<TargetKey, "">>, <<RuntimeKey, RuntimeTarget>>},
    {<<TargetKey, "t">>, <<RuntimeKey, "">>},
    {<<TargetKey, "t">>, <<RuntimeKey, "Target">>},
    {<<TargetKey, "t">>, <<RuntimeKey, "target ">>},
    {<<TargetKey, "t">>, <<RuntimeKey, RuntimeTarget>>},
    {<<TargetKey, "t-a">>, <<RuntimeKey, RuntimeTarget>>} }

\* The raw JSON of object / oldObject.  labelsPresent = FALSE is a namespace
\* whose metadata carries no labels field (a nil map after decoding).
EmptyRaw == [kind |-> "empty", name |-> "", labelsPresent |-> FALSE, labels |-> {}]
GarbageRaw == [kind |-> "garbage", name |-> "", labelsPresent |-> FALSE, labels |-> {}]
NamespaceRaw(n, present, l) ==
  [kind |-> "namespace", name |-> n, labelsPresent |-> present, labels |-> l]

NamespaceObjects ==
  { NamespaceRaw(n, TRUE, l) : n \in NsNames, l \in LabelMaps }
    \cup { NamespaceRaw(n, FALSE, {}) : n \in NsNames }

\* An HTTP request: Content-Type and body.  A body is empty, undecodable,
\* a review without a request section, or a review.
Request(ctype, kind, uid, operation, object, oldObject) ==
  [ctype |-> ctype, kind |-> kind, uid |-> uid, operation |-> operation,
   object |-> object, oldObject |-> oldObject]

NoRequest == Request("", "none", 0, "", EmptyRaw, EmptyRaw)
Review(uid, operation, object, oldObject) ==
  Request(JSONType, "review", uid, operation, object, oldObject)

\* ------------------------------------------------------------ Go semantics
\* value, ok := labels[key]
Lookup(labels, key) ==
  IF \E p \in labels : p[1] = key
    THEN [val |-> (CHOOSE p \in labels : p[1] = key)[2], ok |-> TRUE]
    ELSE [val |-> "", ok |-> FALSE]

ZeroNamespace == [Name |-> "", Labels |-> {}]

\* json.Unmarshal(raw, &namespace): an error on empty or undecodable input.
UnmarshalFails(raw) == raw.kind # "namespace"
Unmarshal(raw) ==
  IF UnmarshalFails(raw) THEN ZeroNamespace
  ELSE [Name |-> raw.name, Labels |-> IF raw.labelsPresent THEN raw.labels ELSE {}]

\* parseRequest, were the a.Request == nil check missing.
parseRequestNoNilCheck(r) ==
  \/ r.ctype # JSONType
  \/ r.kind = "empty"
  \/ r.kind = "garbage"

\* parseRequest returns an error (and the handler answers 400).
parseRequestFails(r) ==
  \/ r.ctype # JSONType
  \/ r.kind = "empty"
  \/ r.kind = "garbage"
  \/ r.kind = "norequest"

\* time.Now().Format("20060102150405"): a 14-digit stamp of one-second resolution.
Digit(d) == CHOOSE s \in {"0", "1", "2", "3", "4", "5", "6", "7", "8", "9"} : s = ToString(d)
TimeFormat(t) == "202401010000" \o Digit(t \div 10) \o Digit(t % 10)

\* fmt.Sprintf("%s-%s-%s", projectName, targetName, namespaceName)
scheduleName(targetName, namespaceName) ==
  projectName \o "-" \o targetName \o "-" \o namespaceName

\* fmt.Sprintf("%s-%s", scheduleName, time.Now().Format(...))
backupName(targetName, namespaceName, t) ==
  scheduleName(targetName, namespaceName) \o "-" \o TimeFormat(t)

\* ------------------------------------------------- the label conditions
\* IsTarget without the targetName != "" test.
IsTargetAnyValue(labels) ==
  LET t == Lookup(labels, TargetKey)
      r == Lookup(labels, RuntimeKey)
  IN  t.ok /\ r.ok /\ r.val = RuntimeTarget

\* targetKey && targetName != "" && runtimeKey && runtime == "target"
IsTarget(labels) ==
  LET t == Lookup(labels, TargetKey)
      r == Lookup(labels, RuntimeKey)
  IN  t.ok /\ t.val # "" /\ r.ok /\ r.val = RuntimeTarget

\* !oldTargetKey || oldTargetName == "" || !oldRuntimeKey || oldRuntime == ""
OldInactive(labels) ==
  LET t == Lookup(labels, TargetKey)
      r == Lookup(labels, RuntimeKey)
  IN  ~t.ok \/ t.val = "" \/ ~r.ok \/ r.val = ""

\* The branch the second switch takes: "Activate" is the pair
\* createVeleroSchedule + createVeleroBackup, "Deactivate" is
\* deleteVeleroSchedule, "NoOp" is no branch.
CreateIntent(namespace) ==
  IF IsTarget(namespace.Labels) THEN "Activate" ELSE "NoOp"

\* UpdateIntent, were every Update to target labels an Activate.
UpdateIntentReassert(namespace, oldNamespace) ==
  IF IsTarget(namespace.Labels) THEN "Activate"
  ELSE IF IsTarget(oldNamespace.Labels) THEN "Deactivate"
  ELSE "NoOp"

\* UpdateIntent without the else-if branch.
UpdateIntentNoDeactivate(namespace, oldNamespace) ==
  IF IsTarget(namespace.Labels) /\ OldInactive(oldNamespace.Labels) THEN "Activate"
  ELSE "NoOp"

UpdateIntent(namespace, oldNamespace) ==
  IF IsTarget(namespace.Labels) /\ OldInactive(oldNamespace.Labels) THEN "Activate"
  ELSE IF ~IsTarget(namespace.Labels) /\ IsTarget(oldNamespace.Labels) THEN "Deactivate"
  ELSE "NoOp"

\* DeleteIntent without the label test.
DeleteIntentUnconditional(oldNamespace) == "Deactivate"

DeleteIntent(oldNamespace) ==
  IF IsTarget(oldNamespace.Labels) THEN "Deactivate" ELSE "NoOp"

Intent(operation, namespace, oldNamespace) ==
  CASE operation = "CREATE" -> CreateIntent(namespace)
    [] operation = "UPDATE" -> UpdateIntent(namespace, oldNamespace)
    [] operation = "DELETE" -> DeleteIntent(oldNamespace)
    [] OTHER -> "NoOp"

\* The targetName argument of deleteVeleroSchedule: oldTargetName.
OldTargetName(oldNamespace) == Lookup(oldNamespace.Labels, TargetKey).val
\* The targetName argument of createVeleroSchedule / createVeleroBackup.
NewTargetName(namespace) == Lookup(namespace.Labels, TargetKey).val

\* ------------------------------------------------------------- responses
NoResponse == [kind |-> "none", status |-> 0, allowed |-> FALSE, uid |-> 0]
\* http.Error(w, ..., code)
HttpError(code) == [kind |-> "error", status |-> code, allowed |-> FALSE, uid |-> 0]
\* The handler returned without writing: net/http sends 200 with an empty body.
EmptyResponse == [kind |-> "empty", status |-> StatusOK, allowed |-> FALSE, uid |-> 0]
\* AllowedResponse without the UID.
AllowedResponseNoUID(uid) == [kind |-> "review", status |-> StatusOK, allowed |-> TRUE, uid |-> 0]

\* AdmissionReview{Response: {Allowed: true, UID: request.UID}}
AllowedResponse(uid) == [kind |-> "review", status |-> StatusOK, allowed |-> TRUE, uid |-> uid]

\* ------------------------------------------------------------------ state
VARIABLES
  clock,        \* wall clock, in seconds
  cluster,      \* the API server's namespaces: name -> [exists, labels]
  schedules,    \* velero.io/v1 schedules in namespace velero: [name, ns]
  backups,      \* velero.io/v1 backups in namespace velero: [name, ns]
  calls,        \* admission calls delivered so far
  faults,       \* failures injected so far
  activations,  \* namespace name -> completed Activate invocations
  pc,           \* handler -> position in ServerNamespaceBackup
  req,          \* handler -> the HTTP request it serves
  namespace,    \* handler -> decoded object
  oldNamespace, \* handler -> decoded oldObject
  client,       \* handler -> the dynamic client: "none", "built" or "failed"
  cancelled,    \* handler -> r.Context() is cancelled
  log,          \* handler -> calls issued on the dynamic client, in order
  resp,         \* handler -> what was written to the ResponseWriter
  written       \* handler -> every response the call wrote, in order

vars == <<clock, cluster, schedules, backups, calls, faults, activations,
          pc, req, namespace, oldNamespace, client, cancelled, log, resp, written>>

env == <<clock, cluster, calls>>
store == <<schedules, backups>>
locals == <<namespace, oldNamespace, client>>

Absent == [exists |-> FALSE, labels |-> {}]
Present(l) == [exists |-> TRUE, labels |-> l]

Init ==
  /\ clock = 0
  /\ cluster = [n \in NsNames |-> Absent]
  /\ schedules = {}
  /\ backups = {}
  /\ calls = 0
  /\ faults = 0
  /\ activations = [n \in NsNames |-> 0]
  /\ pc = [h \in Handlers |-> "idle"]
  /\ req = [h \in Handlers |-> NoRequest]
  /\ namespace = [h \in Handlers |-> ZeroNamespace]
  /\ oldNamespace = [h \in Handlers |-> ZeroNamespace]
  /\ client = [h \in Handlers |-> "none"]
  /\ cancelled = [h \in Handlers |-> FALSE]
  /\ log = [h \in Handlers |-> <<>>]
  /\ resp = [h \in Handlers |-> NoResponse]
  /\ written = [h \in Handlers |-> <<>>]

\* ------------------------------------------------------------ the store
\* The dynamic client's Get / Create / Delete on one resource kind of the
\* velero namespace: names are unique within a kind.
Exists(objs, name) == \E o \in objs : o.name = name

GetResult(objs, name) == IF Exists(objs, name) THEN "ok" ELSE "NotFound"

CreateResult(objs, name) == IF Exists(objs, name) THEN "AlreadyExists" ELSE "ok"
CreateApply(objs, name, ns) ==
  IF Exists(objs, name) THEN objs ELSE objs \cup {[name |-> name, ns |-> ns]}

DeleteResult(objs, name) == IF Exists(objs, name) THEN "ok" ELSE "NotFound"
DeleteApply(objs, name) == {o \in objs : o.name # name}

\* One call on the dynamic client, as the handler's log keeps it.
Call(verb, kind, name, result) ==
  [verb |-> verb, kind |-> kind, name |-> name, result |-> result]

\* A backend that answers ("normal") or fails with some other error ("error").
Outcomes == {"normal"} \cup (IF faults < MaxFaults THEN {"error"} ELSE {})

\* Every client call is made with r.Context(): once it is cancelled the call
\* returns the context's error and nothing reaches the backend.
OutcomesOf(h) == IF cancelled[h] THEN {"cancelled"} ELSE Outcomes
Failed(outcome) == outcome # "normal"

\* ---------------------------------------------------- the API server
\* A request reaches handler h: a new call starts with fresh locals.
Start(h, r, cl) ==
  /\ pc[h] \in {"idle", "done"}
  /\ calls' = calls + 1
  /\ cluster' = cl
  /\ req' = [req EXCEPT ![h] = r]
  /\ pc' = [pc EXCEPT ![h] = "recv"]
  /\ namespace' = [namespace EXCEPT ![h] = ZeroNamespace]
  /\ oldNamespace' = [oldNamespace EXCEPT ![h] = ZeroNamespace]
  /\ client' = [client EXCEPT ![h] = "none"]
  /\ cancelled' = [cancelled EXCEPT ![h] = FALSE]
  /\ log' = [log EXCEPT ![h] = <<>>]
  /\ resp' = [resp EXCEPT ![h] = NoResponse]
  /\ written' = [written EXCEPT ![h] = <<>>]
  /\ UNCHANGED <<clock, schedules, backups, faults, activations>>

\* At most MaxCalls calls are delivered.
Deliver(h, r, cl) ==
  /\ calls < MaxCalls
  /\ Start(h, r, cl)

LabelsOf(o) == IF o.labelsPresent THEN o.labels ELSE {}
StoredRaw(n) == NamespaceRaw(n, cluster[n].labels # {}, cluster[n].labels)

AdmitCreate(h) ==
  \E o \in NamespaceObjects :
    /\ ~cluster[o.name].exists
    /\ Deliver(h, Review(calls + 1, "CREATE", o, EmptyRaw),
               [cluster EXCEPT ![o.name] = Present(LabelsOf(o))])

AdmitUpdate(h) ==
  \E o \in NamespaceObjects :
    /\ cluster[o.name].exists
    /\ Deliver(h, Review(calls + 1, "UPDATE", o, StoredRaw(o.name)),
               [cluster EXCEPT ![o.name] = Present(LabelsOf(o))])

AdmitDelete(h) ==
  \E n \in NsNames :
    /\ cluster[n].exists
    /\ Deliver(h, Review(calls + 1, "DELETE", EmptyRaw, StoredRaw(n)),
               [cluster EXCEPT ![n] = Absent])

\* An operation kind the handler does not know (CONNECT).
AdmitOther(h) ==
  \E o \in {EmptyRaw} \cup {StoredRaw(n) : n \in {m \in NsNames : cluster[m].exists}} :
    Deliver(h, Review(calls + 1, "CONNECT", o, EmptyRaw), cluster)

TargetLabels == {<<TargetKey, "t">>, <<RuntimeKey, RuntimeTarget>>}
SampleObjects == {NamespaceRaw("a", TRUE, TargetLabels), NamespaceRaw("a", FALSE, {})}
BadRaws == {EmptyRaw, GarbageRaw}

MalformedRequests(uid) ==
  { Request("text/plain", "review", uid, "CREATE", NamespaceRaw("a", TRUE, TargetLabels), EmptyRaw),
    Request(JSONType, "empty", 0, "", EmptyRaw, EmptyRaw),
    Request(JSONType, "garbage", 0, "", EmptyRaw, EmptyRaw),
    Request(JSONType, "norequest", 0, "", EmptyRaw, EmptyRaw) }

UndecodableReviews(uid) ==
  { Review(uid, "CREATE", b, EmptyRaw) : b \in BadRaws }
    \cup { Review(uid, "UPDATE", b, o) : b \in BadRaws, o \in SampleObjects }
    \cup { Review(uid, "UPDATE", o, b) : b \in BadRaws, o \in SampleObjects }
    \cup { Review(uid, "DELETE", EmptyRaw, b) : b \in BadRaws }

AdmitMalformed(h) ==
  \E r \in MalformedRequests(calls + 1) \cup UndecodableReviews(calls + 1) :
    Deliver(h, r, cluster)

\* The API server sends the review it sent last once more (same UID).
Replay(h) ==
  /\ pc[h] = "done"
  /\ Deliver(h, req[h], cluster)

\* ------------------------------------------------ ServerNamespaceBackup
KnownOperation(r) == r.operation \in {"CREATE", "UPDATE", "DELETE"}

\* DecodeFails, were the error of the old object not checked on UPDATE.
DecodeFailsNewOnly(r) ==
  CASE r.operation = "CREATE" -> UnmarshalFails(r.object)
    [] r.operation = "UPDATE" -> UnmarshalFails(r.object)
    [] r.operation = "DELETE" -> UnmarshalFails(r.oldObject)
    [] OTHER -> FALSE

\* The first switch: which Unmarshal calls run, and whether one fails.
DecodeFails(r) ==
  CASE r.operation = "CREATE" -> UnmarshalFails(r.object)
    [] r.operation = "UPDATE" -> UnmarshalFails(r.object) \/ UnmarshalFails(r.oldObject)
    [] r.operation = "DELETE" -> UnmarshalFails(r.oldObject)
    [] OTHER -> FALSE

\* namespace after the first switch: decoded on CREATE and UPDATE only.
DecodedNamespace(r) ==
  IF r.operation \in {"CREATE", "UPDATE"} THEN Unmarshal(r.object) ELSE ZeroNamespace

\* oldNamespace after the first switch: decoded on UPDATE and DELETE only.
DecodedOldNamespace(r) ==
  IF r.operation = "DELETE" \/ (r.operation = "UPDATE" /\ ~UnmarshalFails(r.object))
    THEN Unmarshal(r.oldObject) ELSE ZeroNamespace

\* The handler writes response (http.Error or w.Write; the default branch
\* writes nothing) and goes on at next.
Write(h, response, next) ==
  /\ resp' = [resp EXCEPT ![h] = response]
  /\ written' = [written EXCEPT ![h] =
                   IF response.kind \in {"error", "review"} THEN Append(@, response) ELSE @]
  /\ pc' = [pc EXCEPT ![h] = next]

\* The handler writes response and returns.
Finish(h, response) == Write(h, response, "done")

\* AfterHttpError, were the return after http.Error missing.
AfterHttpErrorNoReturn(next) == next

\* Where the handler goes on after an http.Error, next being the statement
\* that follows the error branch: every http.Error is followed by return.
AfterHttpError(next) == "done"

\* parseRequest fails: http.Error 400.
RejectRequest(h) ==
  /\ pc[h] = "recv"
  /\ parseRequestFails(req[h])
  /\ Finish(h, HttpError(StatusBadRequest))
  /\ UNCHANGED <<env, store, faults, activations, req, locals, cancelled, log>>

\* object or oldObject does not decode: http.Error 400.
RejectObject(h) ==
  /\ pc[h] = "recv"
  /\ ~parseRequestFails(req[h])
  /\ DecodeFails(req[h])
  /\ namespace' = [namespace EXCEPT ![h] = DecodedNamespace(req[h])]
  /\ oldNamespace' = [oldNamespace EXCEPT ![h] = DecodedOldNamespace(req[h])]
  /\ Finish(h, HttpError(StatusBadRequest))
  /\ UNCHANGED <<env, store, faults, activations, req, client, cancelled, log>>

\* default: of the first switch: log and return, nothing is written.
UnknownOperation(h) ==
  /\ pc[h] = "recv"
  /\ ~parseRequestFails(req[h])
  /\ ~KnownOperation(req[h])
  /\ Finish(h, EmptyResponse)
  /\ UNCHANGED <<env, store, faults, activations, req, locals, cancelled, log>>

\* FirstStep, were the schedule created without the existence check.
FirstStepNoGet(intent) ==
  CASE intent = "Activate" -> "createSchedule"
    [] intent = "Deactivate" -> "delete"
    [] OTHER -> "respond"

\* Where the second switch goes first.
FirstStep(intent) ==
  CASE intent = "Activate" -> "get"
    [] intent = "Deactivate" -> "delete"
    [] OTHER -> "respond"

\* NeedsClient, were the client only built for the calls that use it.
NeedsClientLazy(intent) == intent # "NoOp"

\* Whether the config and the client are obtained for a call of this
\* intent: they are obtained before the labels are read, whatever it is.
NeedsClient(intent) == TRUE

\* ClientErrorStatus, were the status of the earlier branches copied.
ClientErrorStatusCopied == StatusBadRequest

\* The status of the two http.Error calls of the client construction.
ClientErrorStatus == StatusInternalServerError

\* rest.InClusterConfig or dynamic.NewForConfig fails: http.Error 500.
ClientFails(h) ==
  /\ pc[h] = "recv"
  /\ ~parseRequestFails(req[h])
  /\ KnownOperation(req[h])
  /\ ~DecodeFails(req[h])
  /\ NeedsClient(Intent(req[h].operation, DecodedNamespace(req[h]),
                        DecodedOldNamespace(req[h])))
  /\ faults < MaxFaults
  /\ faults' = faults + 1
  /\ namespace' = [namespace EXCEPT ![h] = DecodedNamespace(req[h])]
  /\ oldNamespace' = [oldNamespace EXCEPT ![h] = DecodedOldNamespace(req[h])]
  /\ client' = [client EXCEPT ![h] = "failed"]
  /\ Write(h, HttpError(ClientErrorStatus),
           AfterHttpError(FirstStep(Intent(req[h].operation, DecodedNamespace(req[h]),
                                           DecodedOldNamespace(req[h])))))
  /\ UNCHANGED <<env, store, activations, req, cancelled, log>>

\* The request parses, the objects decode, the client is built: the second
\* switch picks its branch.
Dispatch(h) ==
  /\ pc[h] = "recv"
  /\ ~parseRequestFails(req[h])
  /\ KnownOperation(req[h])
  /\ ~DecodeFails(req[h])
  /\ namespace' = [namespace EXCEPT ![h] = DecodedNamespace(req[h])]
  /\ oldNamespace' = [oldNamespace EXCEPT ![h] = DecodedOldNamespace(req[h])]
  /\ client' = [client EXCEPT ![h] =
                  IF NeedsClient(Intent(req[h].operation, DecodedNamespace(req[h]),
                                        DecodedOldNamespace(req[h])))
                    THEN "built" ELSE "none"]
  /\ pc' = [pc EXCEPT ![h] =
              FirstStep(Intent(req[h].operation, DecodedNamespace(req[h]),
                               DecodedOldNamespace(req[h])))]
  /\ UNCHANGED <<env, store, faults, activations, req, cancelled, log, resp, written>>

\* createVeleroSchedule, the Get: its error is logged, nothing else.
createVeleroScheduleGet(h) ==
  /\ pc[h] = "get"
  /\ \E outcome \in OutcomesOf(h) :
       LET name == scheduleName(NewTargetName(namespace[h]), namespace[h].Name)
           result == IF Failed(outcome) THEN "error" ELSE GetResult(schedules, name)
       IN  /\ log' = [log EXCEPT ![h] = Append(@, Call("get", "schedules", name, result))]
           /\ faults' = IF outcome = "error" THEN faults + 1 ELSE faults
  /\ pc' = [pc EXCEPT ![h] = "createSchedule"]
  /\ UNCHANGED <<env, store, activations, req, locals, cancelled, resp, written>>

\* createVeleroSchedule, the Create: its error is logged, nothing else.
createVeleroScheduleCreate(h) ==
  /\ pc[h] = "createSchedule"
  /\ \E outcome \in OutcomesOf(h) :
       LET name == scheduleName(NewTargetName(namespace[h]), namespace[h].Name)
           result == IF Failed(outcome) THEN "error" ELSE CreateResult(schedules, name)
       IN  /\ log' = [log EXCEPT ![h] = Append(@, Call("create", "schedules", name, result))]
           /\ schedules' = IF Failed(outcome) THEN schedules
                           ELSE CreateApply(schedules, name, namespace[h].Name)
           /\ faults' = IF outcome = "error" THEN faults + 1 ELSE faults
  /\ pc' = [pc EXCEPT ![h] = "createBackup"]
  /\ UNCHANGED <<env, backups, activations, req, locals, cancelled, resp, written>>

\* createVeleroBackup: the name carries the second the call is made in.
createVeleroBackup(h) ==
  /\ pc[h] = "createBackup"
  /\ \E outcome \in OutcomesOf(h) :
       LET name == backupName(NewTargetName(namespace[h]), namespace[h].Name, clock)
           result == IF Failed(outcome) THEN "error" ELSE CreateResult(backups, name)
       IN  /\ log' = [log EXCEPT ![h] = Append(@, Call("create", "backups", name, result))]
           /\ backups' = IF Failed(outcome) THEN backups
                         ELSE CreateApply(backups, name, namespace[h].Name)
           /\ faults' = IF outcome = "error" THEN faults + 1 ELSE faults
  /\ activations' = [activations EXCEPT ![namespace[h].Name] = @ + 1]
  /\ pc' = [pc EXCEPT ![h] = "respond"]
  /\ UNCHANGED <<env, schedules, req, locals, cancelled, resp, written>>

\* The resource deleteVeleroSchedule deletes from, were it the backups one.
veleroBackupResourceInDelete == "backups"

\* veleroScheduleResource of deleteVeleroSchedule: the resource it deletes from.
veleroScheduleResourceInDelete == "schedules"

\* deleteVeleroSchedule(oldTargetName, namespace.Name): its error is logged.
deleteVeleroSchedule(h) ==
  /\ pc[h] = "delete"
  /\ \E outcome \in OutcomesOf(h) :
       LET name == scheduleName(OldTargetName(oldNamespace[h]), namespace[h].Name)
           kind == veleroScheduleResourceInDelete
           objs == IF kind = "schedules" THEN schedules ELSE backups
           result == IF Failed(outcome) THEN "error" ELSE DeleteResult(objs, name)
       IN  /\ log' = [log EXCEPT ![h] = Append(@, Call("delete", kind, name, result))]
           /\ schedules' = IF Failed(outcome) \/ kind # "schedules" THEN schedules
                           ELSE DeleteApply(schedules, name)
           /\ backups' = IF Failed(outcome) \/ kind # "backups" THEN backups
                         ELSE DeleteApply(backups, name)
           /\ faults' = IF outcome = "error" THEN faults + 1 ELSE faults
  /\ pc' = [pc EXCEPT ![h] = "respond"]
  /\ UNCHANGED <<env, activations, req, locals, cancelled, resp, written>>

\* ResponseAfter, were an error of a client call answered with http.Error.
ResponseAfterStrict(uid, issued) ==
  IF \E i \in 1..Len(issued) : issued[i].result \notin {"ok", "NotFound"}
    THEN HttpError(StatusInternalServerError)
    ELSE AllowedResponse(uid)

\* What is written after the second switch: the errors of the client calls
\* were logged and dropped, the response does not depend on them.
ResponseAfter(uid, issued) == AllowedResponse(uid)

\* The allowed review is marshalled and written; r.Context() is not consulted.
WriteResponse(h) ==
  /\ pc[h] = "respond"
  /\ Finish(h, ResponseAfter(req[h].uid, log[h]))
  /\ UNCHANGED <<env, store, faults, activations, req, locals, cancelled, log>>

\* The client disconnects or the deadline passes while the call is being
\* orchestrated: r.Context() is cancelled.
Cancel(h) ==
  /\ pc[h] \in {"recv", "get", "createSchedule", "createBackup", "delete"}
  /\ ~cancelled[h]
  /\ faults < MaxFaults
  /\ faults' = faults + 1
  /\ cancelled' = [cancelled EXCEPT ![h] = TRUE]
  /\ UNCHANGED <<env, store, activations, pc, req, locals, log, resp, written>>

\* A second of wall-clock time passes.
Tick ==
  /\ clock < MaxClock
  /\ clock' = clock + 1
  /\ UNCHANGED <<cluster, calls, schedules, backups, faults, activations,
                 pc, req, namespace, oldNamespace, client, cancelled, log, resp, written>>

Step(h) ==
  \/ AdmitCreate(h)
  \/ AdmitUpdate(h)
  \/ AdmitDelete(h)
  \/ AdmitOther(h)
  \/ AdmitMalformed(h)
  \/ Replay(h)
  \/ Cancel(h)
  \/ RejectRequest(h)
  \/ RejectObject(h)
  \/ UnknownOperation(h)
  \/ ClientFails(h)
  \/ Dispatch(h)
  \/ createVeleroScheduleGet(h)
  \/ createVeleroScheduleCreate(h)
  \/ createVeleroBackup(h)
  \/ deleteVeleroSchedule(h)
  \/ WriteResponse(h)

\* Calls handled one at a time.
Next == Tick \/ Step(1)

Spec == Init /\ [][Next]_vars

\* ------------------------------------------------ calls handled concurrently
\* net/http runs ServerNamespaceBackup in one goroutine per request. The
\* calls of this specification are about one namespace: up to MaxCalls
\* reviews are delivered while others are still being handled, and one more
\* once all of them are answered.
ConcObjects == {NamespaceRaw("a", TRUE, TargetLabels), NamespaceRaw("a", TRUE, {})}

\* Goroutines have no identity: a call that needs a fresh handler takes the
\* first one that has not run yet.
Free(h) == pc[h] = "done" \/ \A g \in Handlers : g < h => pc[g] # "idle"

ConcAdmit(h) ==
  /\ Free(h)
  /\ calls < MaxCalls \/ (calls = MaxCalls /\ \A g \in Handlers : pc[g] \in {"idle", "done"})
  /\ \E o \in ConcObjects :
       Start(h, IF cluster[o.name].exists
                  THEN Review(calls + 1, "UPDATE", o, StoredRaw(o.name))
                  ELSE Review(calls + 1, "CREATE", o, EmptyRaw),
             [cluster EXCEPT ![o.name] = Present(LabelsOf(o))])

\* The review another handler is still handling is delivered once more.
ConcReplay(h) ==
  /\ Free(h)
  /\ calls < MaxCalls
  /\ \E g \in Handlers \ {h} :
       /\ pc[g] \notin {"idle", "done"}
       /\ Start(h, req[g], cluster)

ConcStep(h) ==
  \/ ConcAdmit(h)
  \/ ConcReplay(h)
  \/ Cancel(h)
  \/ ClientFails(h)
  \/ Dispatch(h)
  \/ createVeleroScheduleGet(h)
  \/ createVeleroScheduleCreate(h)
  \/ createVeleroBackup(h)
  \/ deleteVeleroSchedule(h)
  \/ WriteResponse(h)

\* The overlapping calls fall within one second of the wall clock.
NextConc == \E h \in Handlers : ConcStep(h)

SpecConc == Init /\ [][NextConc]_vars

\* ================================================================ claims
\* The target predicate as the specification words it: the target label is
\* present with a non-empty value and the runtime label is exactly "target".
TargetState(labels) ==
  /\ \E v \in {p[2] : p \in {q \in labels : q[1] = TargetKey}} : v # ""
  /\ <<RuntimeKey, "target">> \in labels

Done(h) == pc[h] = "done"
Quiet == \A h \in Handlers : pc[h] \in {"idle", "done"}
\* The call got past parsing, decoding and the construction of the client.
Served(h) == Done(h) /\ client[h] = "built"
Op(h) == req[h].operation
\* How many calls of one verb on one resource kind the call issued.
Issued(h, verb, kind) ==
  Cardinality({i \in 1..Len(log[h]) : log[h][i].verb = verb /\ log[h][i].kind = kind})
SomeResult(h, result) == \E i \in 1..Len(log[h]) : log[h][i].result = result
\* The namespace the call is about.
CallNamespace(h) == IF Op(h) = "DELETE" THEN oldNamespace[h].Name ELSE namespace[h].Name
SchedulesFor(n) == {s \in schedules : s.ns = n}
BackupsFor(n) == {b \in backups : b.ns = n}
IsAllowed(h) ==
  /\ resp[h].kind = "review"
  /\ resp[h].status = 200
  /\ resp[h].allowed
  /\ resp[h].uid = req[h].uid
\* The calls that are a Deactivate by the transition table.
DeactivateCall(h) ==
  \/ Op(h) = "UPDATE" /\ TargetState(oldNamespace[h].Labels) /\ ~TargetState(namespace[h].Labels)
  \/ Op(h) = "DELETE" /\ TargetState(oldNamespace[h].Labels)

\* C1: with a healthy backend and calls handled one after the other, whenever
\* no call is in flight every namespace has at most one schedule in the store,
\* and has one exactly when it exists and its last admitted labels are a target.
C1_Convergence ==
  (Quiet /\ faults = 0) =>
    \A n \in NsNames :
      /\ Cardinality(SchedulesFor(n)) <= 1
      /\ (SchedulesFor(n) # {}) <=> (cluster[n].exists /\ TargetState(cluster[n].labels))

\* C2: an Update whose old labels are not a target and whose new labels are
\* issues exactly one schedule-create and exactly one backup-create.
C2_UpdateActivates ==
  \A h \in Handlers :
    (Served(h) /\ Op(h) = "UPDATE"
       /\ ~TargetState(oldNamespace[h].Labels) /\ TargetState(namespace[h].Labels))
    => (Issued(h, "create", "schedules") = 1 /\ Issued(h, "create", "backups") = 1)

\* C3: a Create issues exactly one schedule-create and one backup-create if
\* the new labels are a target, and otherwise issues no call at all and is
\* answered allowed.
C3_CreateActivatesIffTarget ==
  \A h \in Handlers :
    (Served(h) /\ Op(h) = "CREATE") =>
      IF TargetState(namespace[h].Labels)
        THEN Issued(h, "create", "schedules") = 1 /\ Issued(h, "create", "backups") = 1
        ELSE log[h] = <<>> /\ IsAllowed(h)

C3_Witness ==
  \E h \in Handlers :
    /\ Served(h) /\ Op(h) = "CREATE"
    /\ TargetState(namespace[h].Labels)
    /\ Issued(h, "create", "schedules") = 1
    /\ Issued(h, "create", "backups") = 1
    /\ IsAllowed(h)

\* C4: an Update from target labels to labels that are no target issues
\* exactly one schedule-delete and no call on the backup kind.
C4_UpdateDeactivates ==
  \A h \in Handlers :
    (Served(h) /\ Op(h) = "UPDATE"
       /\ TargetState(oldNamespace[h].Labels) /\ ~TargetState(namespace[h].Labels))
    => /\ Issued(h, "delete", "schedules") = 1
       /\ \A i \in 1..Len(log[h]) : log[h][i].kind # "backups"
       /\ Len(log[h]) = 1

C4_Witness ==
  \E h \in Handlers :
    /\ Served(h) /\ Op(h) = "UPDATE"
    /\ TargetState(oldNamespace[h].Labels) /\ ~TargetState(namespace[h].Labels)
    /\ log[h] = <<Call("delete", "schedules", "test-project-t-a", "ok")>>

\* C5: a Delete issues exactly one schedule-delete if the old labels are a
\* target and no call at all otherwise; it never issues a create.
C5_DeleteDeactivatesIffTarget ==
  \A h \in Handlers :
    (Served(h) /\ Op(h) = "DELETE") =>
      /\ IF TargetState(oldNamespace[h].Labels)
           THEN Issued(h, "delete", "schedules") = 1 /\ Len(log[h]) = 1
           ELSE log[h] = <<>>
      /\ \A i \in 1..Len(log[h]) : log[h][i].verb # "create"

C5_Witness ==
  \E h \in Handlers :
    /\ Served(h) /\ Op(h) = "DELETE"
    /\ TargetState(oldNamespace[h].Labels)
    /\ Issued(h, "delete", "schedules") = 1

\* C6: when a Deactivate is about to delete, the identity it computed is the
\* identity of every schedule Activate created for the same namespace.
C6_SameIdentity ==
  \A h \in Handlers :
    pc[h] = "delete" =>
      \A s \in SchedulesFor(CallNamespace(h)) :
        s.name = scheduleName(OldTargetName(oldNamespace[h]), namespace[h].Name)

\* C7: a Create, Update or Delete call that decoded and whose client was
\* built is answered allowed with the request's UID, whatever the backend
\* answered and whether or not a call was issued.
C7_AlwaysAllowed ==
  \A h \in Handlers :
    (Served(h) /\ Op(h) \in {"CREATE", "UPDATE", "DELETE"}) => IsAllowed(h)

C7_Witness ==
  \E h \in Handlers :
    /\ Served(h)
    /\ SomeResult(h, "error")
    /\ IsAllowed(h)
    /\ req[h].uid > 0

\* C8: a well-formed call of an unknown operation kind issues no call and is
\* answered allowed with the request's UID.
C8_UnknownOperationAllowed ==
  \A h \in Handlers :
    (Done(h) /\ ~parseRequestFails(req[h])
       /\ Op(h) \notin {"CREATE", "UPDATE", "DELETE"})
    => (log[h] = <<>> /\ IsAllowed(h))

\* C9: with a healthy backend, two Activates for one namespace name leave
\* exactly two backups of that namespace in the store, and no schedule
\* identity is stored twice.
C9_TwoActivations ==
  (Quiet /\ faults = 0) =>
    /\ \A n \in NsNames : activations[n] = 2 => Cardinality(BackupsFor(n)) = 2
    /\ \A s1, s2 \in schedules : s1.name = s2.name => s1 = s2

\* C10: with a healthy backend, after every Deactivate (the first and a
\* repeated one) the namespace has no schedule in the store, and the call is
\* answered allowed, a not-found from the delete included.
C10_DeactivateIdempotent ==
  \A h \in Handlers :
    (Served(h) /\ DeactivateCall(h) /\ faults = 0) =>
      /\ SchedulesFor(CallNamespace(h)) = {}
      /\ IsAllowed(h)

\* The schedule creates handler h has issued in its current call.
ScheduleCreates(h) ==
  {log[h][i] : i \in {j \in 1..Len(log[h]) :
                        log[h][j].verb = "create" /\ log[h][j].kind = "schedules"}}

\* C11: the schedule identity is a function of the namespace name alone:
\* the identity an Activate for namespace N creates is the identity of every
\* stored schedule of N, whatever the label values, and it is the identity of
\* no schedule of another namespace.
C11_IdentityOfNamespace ==
  \A h \in Handlers : \A c \in ScheduleCreates(h) : \A s \in schedules :
    (s.ns = namespace[h].Name) <=> (s.name = c.name)

\* The envelope of handler h's request is malformed: wrong content type,
\* empty body, undecodable body, or no request section.
Malformed(h) ==
  \/ req[h].ctype # "application/json"
  \/ req[h].kind \in {"empty", "garbage", "norequest"}

\* Handler h's call was answered with an error of the class [lo, lo + 99] and
\* has issued no client call.
RejectedWith(h, lo) ==
  /\ resp[h].kind = "error"
  /\ resp[h].status \in lo..(lo + 99)
  /\ ~resp[h].allowed
  /\ log[h] = <<>>

\* C12: a call whose envelope is malformed issues no client call at any
\* point, and is answered with a 4xx error, never with an allowed decision.
C12_MalformedRejected ==
  \A h \in Handlers :
    (pc[h] # "idle" /\ Malformed(h)) =>
      /\ log[h] = <<>>
      /\ Done(h) => RejectedWith(h, 400)

C12_Witness ==
  \E h \in Handlers :
    /\ Done(h)
    /\ req[h].ctype = "application/json"
    /\ req[h].kind = "norequest"
    /\ RejectedWith(h, 400)

\* An object the first switch has to decode for handler h's operation does
\* not decode (a missing or empty raw object included).
Undecodable(h) ==
  \/ Op(h) \in {"CREATE", "UPDATE"} /\ req[h].object.kind # "namespace"
  \/ Op(h) \in {"UPDATE", "DELETE"} /\ req[h].oldObject.kind # "namespace"

\* C13: a well-formed call whose new object (Create, Update) or old object
\* (Update, Delete) does not decode issues no client call and is answered
\* with a 4xx error, never allowed; on Update also when only the old object
\* fails.
C13_UndecodableRejected ==
  \A h \in Handlers :
    (pc[h] # "idle" /\ ~Malformed(h) /\ Undecodable(h)) =>
      /\ log[h] = <<>>
      /\ Done(h) => RejectedWith(h, 400)

C13_Witness ==
  \E h \in Handlers :
    /\ Done(h)
    /\ ~Malformed(h)
    /\ Op(h) = "UPDATE"
    /\ req[h].object.kind = "namespace"
    /\ TargetState(req[h].object.labels)
    /\ req[h].oldObject.kind = "empty"
    /\ RejectedWith(h, 400)

\* C14: a call for which the credentials or the client could not be obtained
\* issues no get, create or delete and is answered with a 5xx error, never
\* with an allowed decision.
C14_ClientFailureRejected ==
  \A h \in Handlers :
    client[h] = "failed" =>
      /\ log[h] = <<>>
      /\ Done(h)
      /\ RejectedWith(h, 500)

C14_Witness ==
  \E h \in Handlers :
    /\ client[h] = "failed"
    /\ Op(h) = "CREATE"
    /\ TargetState(namespace[h].Labels)
    /\ RejectedWith(h, 500)
    /\ schedules = {}

\* C15: a call whose request context was cancelled before its orchestration
\* completed writes no admission response.
C15_NoResponseAfterCancel ==
  \A h \in Handlers :
    (Done(h) /\ cancelled[h]) => resp[h].kind # "review"

\* The deletes against the backup kind handler h has issued.
BackupDeletes(h) == Issued(h, "delete", "backups")

\* Handler h takes the delete step of a Deactivate.
Deactivates(h) == pc[h] = "delete" /\ pc'[h] # "delete"

\* C18: no step of any call issues a delete against the backup kind, and the
\* delete step of a Deactivate leaves the set of backups unchanged.
C18_BackupsKept ==
  [][ /\ \A h \in Handlers : BackupDeletes(h)' = 0
      /\ (\E h \in Handlers : Deactivates(h)) => backups' = backups ]_vars

C18_Witness ==
  \E h \in Handlers :
    /\ Served(h) /\ DeactivateCall(h)
    /\ \E i \in 1..Len(log[h]) : log[h][i].verb = "delete" /\ log[h][i].result = "ok"
    /\ BackupsFor(CallNamespace(h)) # {}

\* Handler h's call is an Update whose old and new labels agree on being a
\* target, and it has reached the label switch.
SteadyUpdate(h) ==
  /\ client[h] = "built"
  /\ Op(h) = "UPDATE"
  /\ TargetState(oldNamespace[h].Labels) <=> TargetState(namespace[h].Labels)

\* C19: an Update whose old and new labels agree on being a target (both
\* are, the target value changing or not, or both are not) issues no get,
\* create or delete, and none of its steps changes the store.
C19_SteadyUpdateNoOp ==
  [][ \A h \in Handlers :
        /\ SteadyUpdate(h)' => (log[h]' = <<>> /\ pc[h]' \in {"respond", "done"})
        /\ (SteadyUpdate(h) /\ pc[h] # pc[h]') => UNCHANGED store ]_vars

C19_Witness ==
  \E h \in Handlers :
    /\ Done(h) /\ SteadyUpdate(h)
    /\ TargetState(namespace[h].Labels)
    /\ NewTargetName(namespace[h]) # OldTargetName(oldNamespace[h])
    /\ log[h] = <<>>
    /\ schedules # {}

\* Handler h's call has issued a get or a create: it is an Activate.
Activating(h) ==
  \E i \in 1..Len(log[h]) : log[h][i].verb \in {"get", "create"}

\* The verb and kind of each call handler h has issued, in order.
Shape(h) == [i \in 1..Len(log[h]) |-> <<log[h][i].verb, log[h][i].kind>>]

ActivateShape ==
  <<<<"get", "schedules">>, <<"create", "schedules">>, <<"create", "backups">>>>

\* C20: the calls of an Activate are, in this order, the get of the
\* schedule, the create of the schedule and the create of the backup, each
\* issued whatever the one before returned, and no delete among them.
C20_ActivateOrder ==
  \A h \in Handlers :
    Activating(h) =>
      /\ Shape(h) = SubSeq(ActivateShape, 1, Len(log[h]))
      /\ pc[h] = CASE Len(log[h]) = 1 -> "createSchedule"
                   [] Len(log[h]) = 2 -> "createBackup"
                   [] OTHER -> IF Done(h) THEN "done" ELSE "respond"
      /\ Len(log[h]) >= 2 => log[h][2].name = log[h][1].name

C20_Witness ==
  \E h \in Handlers :
    /\ Done(h)
    /\ Shape(h) = ActivateShape
    /\ log[h][1].result = "ok"
    /\ log[h][2].result = "AlreadyExists"
    /\ log[h][3].result = "ok"

\* The handlers whose call is an answered Activate for namespace n.
Activated(n) ==
  {h \in Handlers : Done(h) /\ Activating(h) /\ namespace[h].Name = n}

\* The handlers of Activated(n) whose schedule create succeeded.
Winners(n) ==
  {h \in Activated(n) : \E c \in ScheduleCreates(h) : c.result = "ok"}

\* C16: when every call delivered so far, two or more of them, was an
\* Activate for the same namespace, each handled by its own handler under
\* any interleaving, the store holds at most one schedule of the namespace,
\* at most one of the schedule creates succeeded, and every call went on to
\* the backup create and was answered allowed.
C16_ConcurrentActivates ==
  \A n \in NsNames :
    (calls >= 2 /\ Cardinality(Activated(n)) = calls) =>
      /\ Cardinality(SchedulesFor(n)) <= 1
      /\ Cardinality(Winners(n)) <= 1
      /\ \A h \in Activated(n) : Shape(h) = ActivateShape /\ IsAllowed(h)

C16_Witness ==
  \E h1, h2 \in Handlers :
    /\ h1 # h2
    /\ {h1, h2} \subseteq Activated("a")
    /\ log[h1][1].result = "NotFound" /\ log[h1][2].result = "ok"
    /\ log[h2][1].result = "NotFound" /\ log[h2][2].result = "AlreadyExists"
    /\ IsAllowed(h1) /\ IsAllowed(h2)
    /\ Cardinality(SchedulesFor("a")) = 1

\* The store agrees with the labels of namespace n: a schedule of n exists
\* iff n exists with target labels.
Resolved(n) ==
  (SchedulesFor(n) # {}) <=> (cluster[n].exists /\ TargetState(cluster[n].labels))

\* All concurrently delivered calls and the one admission event after them
\* are answered, and the backend was healthy throughout.
AfterNextEvent == Quiet /\ faults = 0 /\ calls = MaxCalls + 1

\* The handler of the admission event delivered last.
IsLastCall(h) == req[h].uid = calls /\ Served(h)

\* The labels carry a non-empty target value and a non-empty runtime value.
HasBothValues(labels) ==
  /\ \E p \in labels : p[1] = TargetKey /\ p[2] # ""
  /\ \E p \in labels : p[1] = RuntimeKey /\ p[2] # ""

Written(h, kind) ==
  Cardinality({i \in 1..Len(written[h]) : written[h][i].kind = kind})

\* C21: a call writes at most one response, an error or an allowed review
\* and never both; a call of a known operation that has returned wrote
\* exactly one; and a call that has written an error has returned, so it
\* issues no client call afterwards.
C21_OneOutcome ==
  \A h \in Handlers :
    /\ Written(h, "error") + Written(h, "review") <= 1
    /\ Written(h, "error") > 0 => Done(h)
    /\ (Done(h) /\ (Malformed(h) \/ Op(h) \in {"CREATE", "UPDATE", "DELETE"}))
         => (written[h] = <<resp[h]>> /\ resp[h].kind \in {"error", "review"})

C21_Witness ==
  \E h \in Handlers :
    /\ Done(h)
    /\ Op(h) = "CREATE"
    /\ TargetState(namespace[h].Labels)
    /\ written[h] = <<HttpError(500)>>
    /\ log[h] = <<>>

\* Handler h's call is a Create, Update or Delete whose envelope and objects
\* decoded: it has come to the construction of the client.
Constructs(h) ==
  /\ pc[h] \notin {"idle", "recv"}
  /\ ~Malformed(h) /\ ~Undecodable(h)
  /\ Op(h) \in {"CREATE", "UPDATE", "DELETE"}

\* The labels of handler h's call ask for nothing: a Create of a namespace
\* that is no target, an Update whose old and new labels agree on being a
\* target, a Delete of a namespace that was no target.
NoOpCall(h) ==
  CASE Op(h) = "CREATE" -> ~TargetState(namespace[h].Labels)
    [] Op(h) = "UPDATE" ->
         (TargetState(oldNamespace[h].Labels) <=> TargetState(namespace[h].Labels))
    [] Op(h) = "DELETE" -> ~TargetState(oldNamespace[h].Labels)
    [] OTHER -> FALSE

\* C22: every Create, Update or Delete call that decoded has attempted the
\* construction of the client before its labels decide anything, whatever
\* they ask for; a call whose construction failed is answered with a 5xx
\* error and no call whose labels ask for nothing is answered allowed without
\* the client having been built.
C22_ClientBeforeLabels ==
  \A h \in Handlers :
    Constructs(h) =>
      /\ client[h] \in {"built", "failed"}
      /\ client[h] = "failed" => (Done(h) /\ RejectedWith(h, 500))
      /\ (NoOpCall(h) /\ Written(h, "review") > 0) => client[h] = "built"

C22_Witness ==
  \E h \in Handlers :
    /\ Constructs(h) /\ Done(h)
    /\ Op(h) = "UPDATE"
    /\ NoOpCall(h)
    /\ client[h] = "failed"
    /\ written[h] = <<HttpError(500)>>

====
